---- MODULE Spec2Model ----
(***************************************************************************)
(* The virtual-DOM core of djust: the tree model (VNode, Patch), the diff  *)
(* engine (crates/djust_vdom/src/diff.rs), the patch applier               *)
(* (crates/djust_vdom/src/patch.rs) and the parser                         *)
(* (crates/djust_vdom/src/parser.rs), with the generators and the          *)
(* structural comparison of crates/djust_vdom/tests/fuzz_test.rs.          *)
(*                                                                         *)
(* Conventions.  A Rust Option is a sequence of length at most one: None   *)
(* is << >> and Some(x) is <<x>>.  A Vec is a TLA+ sequence; the code's    *)
(* indices are 0-based, so the element the code calls v[i] is v[i + 1]     *)
(* here and every index stored in a patch or a path is the code's 0-based  *)
(* index.  A HashMap<String, String> is a function whose domain is its key *)
(* set.  A Rust panic (Vec::remove, Vec::insert or a slice index out of    *)
(* range) is a flag carried next to the value the operation would return.  *)
(***************************************************************************)
EXTENDS Naturals, Sequences, FiniteSets, TLC

VARIABLES
    old,          \* tree A, the first argument of diff_nodes
    new,          \* tree B, the second argument of diff_nodes
    pc,           \* "html" | "parsed" | "start" | "diffed" | "applied" |
                  \* "applied_one" | "panicked" | "panicked_one"
    patches,      \* the Vec<Patch> handed to the applier
    diff_panic,   \* diff_nodes indexed a child list out of range
    patched,      \* the tree the applier worked on
    apply_panic,  \* the applier removed or inserted out of range
    order,        \* the positions of `patches` in the order the applier took them
    html,         \* the documents handed to parse_html, as html5ever built them
    id_counter    \* the process-wide counter behind next_djust_id

vars ==
    <<old, new, pc, patches, diff_panic, patched, apply_panic, order, html,
      id_counter>>

----------------------------------------------------------------------------
(* Option *)

None == << >>

Some(x) == <<x>>

IsSome(o) == o # << >>

Unwrap(o) == o[1]

----------------------------------------------------------------------------
(* VNode *)

TextTag == "#text"

NoAttrs == [k \in {} |-> ""]

VNode_element(tag) ==
    [tag |-> tag, attrs |-> NoAttrs, children |-> << >>, text |-> None,
     key |-> None, djust_id |-> None]

VNode_text(content) ==
    [tag |-> TextTag, attrs |-> NoAttrs, children |-> << >>,
     text |-> Some(content), key |-> None, djust_id |-> None]

with_attr(n, k, v) == [n EXCEPT !.attrs = (k :> v) @@ n.attrs]

with_key(n, k) == [n EXCEPT !.key = Some(k)]

with_children(n, cs) == [n EXCEPT !.children = cs]

is_text(n) == n.tag = TextTag

\* The value a slice index out of range would have produced had it not
\* panicked; it is only ever read together with a raised panic flag.
OobNode == VNode_element("#oob")

\* v[i] of the code (0-based).
At(v, i) == IF i < Len(v) THEN v[i + 1] ELSE OobNode

InBounds(v, i) == i < Len(v)

----------------------------------------------------------------------------
(* Sequence helpers *)

RECURSIVE Flatten(_)
Flatten(ss) == IF ss = << >> THEN << >> ELSE Head(ss) \o Flatten(Tail(ss))

\* The elements of the set S in the order in which they occur in the
\* sequence ord.
InOrder(ord, S) == SelectSeq(ord, LAMBDA k : k \in S)

Reverse(s) == [i \in 1..Len(s) |-> s[Len(s) + 1 - i]]

SetMax(S) == CHOOSE m \in S : \A x \in S : x <= m

Min(a, b) == IF a <= b THEN a ELSE b

\* Vec::remove(i) and Vec::insert(i, x), 0-based, for indices in range.
VecRemove(v, i) == SubSeq(v, 1, i) \o SubSeq(v, i + 2, Len(v))

VecInsert(v, i, x) == SubSeq(v, 1, i) \o <<x>> \o SubSeq(v, i + 1, Len(v))

----------------------------------------------------------------------------
(* Patch *)

Replace(path, d, node) ==
    [type |-> "Replace", path |-> path, d |-> d, node |-> node]

SetText(path, d, text) ==
    [type |-> "SetText", path |-> path, d |-> d, text |-> text]

SetAttr(path, d, key, value) ==
    [type |-> "SetAttr", path |-> path, d |-> d, key |-> key, value |-> value]

RemoveAttr(path, d, key) ==
    [type |-> "RemoveAttr", path |-> path, d |-> d, key |-> key]

InsertChild(path, d, index, node) ==
    [type |-> "InsertChild", path |-> path, d |-> d, index |-> index,
     node |-> node]

RemoveChild(path, d, index) ==
    [type |-> "RemoveChild", path |-> path, d |-> d, index |-> index]

MoveChild(path, d, from, to) ==
    [type |-> "MoveChild", path |-> path, d |-> d, from |-> from, to |-> to]

----------------------------------------------------------------------------
(* diff.rs *)

\* What a diff function returns: the patches pushed, and whether a slice
\* index panicked on the way.
Ok(ps) == [patches |-> ps, panic |-> FALSE]

Panicked == [patches |-> << >>, panic |-> TRUE]

Both(r1, r2) ==
    [patches |-> r1.patches \o r2.patches, panic |-> r1.panic \/ r2.panic]

All(rs) ==
    [patches |-> Flatten([i \in DOMAIN rs |-> rs[i].patches]),
     panic |-> \E i \in DOMAIN rs : rs[i].panic]

\* A read v[i]: the result r of what the code does with the element,
\* or a panic when i is out of range.
Read(v, i, r) == IF InBounds(v, i) THEN r ELSE Panicked

IdAttr == "data-dj-id"

ReplaceAttr == "data-djust-replace"

\* for (key, old_value) in &old.attrs, then for (key, new_value) in
\* &new.attrs; h.attrs is the iteration order of the hash maps.
diff_attrs(o, n, path, target_id, h) ==
    LET removed_or_changed(k) ==
            IF k = IdAttr THEN << >>
            ELSE IF k \notin DOMAIN n.attrs
                 THEN <<RemoveAttr(path, target_id, k)>>
            ELSE IF n.attrs[k] # o.attrs[k]
                 THEN <<SetAttr(path, target_id, k, n.attrs[k])>>
            ELSE << >>
        added(k) ==
            IF k = IdAttr THEN << >>
            ELSE IF k \notin DOMAIN o.attrs
                 THEN <<SetAttr(path, target_id, k, n.attrs[k])>>
            ELSE << >>
        oks == InOrder(h.attrs, DOMAIN o.attrs)
        nks == InOrder(h.attrs, DOMAIN n.attrs)
    IN  Flatten([i \in DOMAIN oks |-> removed_or_changed(oks[i])])
        \o Flatten([i \in DOMAIN nks |-> added(nks[i])])

\* The keys carried by the nodes of a child list.
KeysOf(v) == {Unwrap(v[i].key) : i \in {j \in DOMAIN v : IsSome(v[j].key)}}

\* .enumerate().filter_map(|(i, node)| node.key.map(|k| (k, i))).collect():
\* a later child with the same key overwrites the earlier entry.
KeyIndex(v) ==
    [k \in KeysOf(v) |->
        SetMax({i \in 0..(Len(v) - 1) : v[i + 1].key = Some(k)})]

\* No key ever counts as gone.
KeyNeverGone(new_keys, key) == FALSE

\* !new_keys.contains_key(key)
KeyGone(new_keys, key) == key \notin DOMAIN new_keys

\* Every matched key counts as moved.
MovedAlways(old_idx, new_idx) == TRUE

\* old_idx != new_idx
Moved(old_idx, new_idx) == old_idx # new_idx

\* The child path built from the old index.
ChildPathOld(path, old_idx, new_idx) == Append(path, old_idx)

\* let mut child_path = path.to_vec(); child_path.push(new_idx);
ChildPath(path, old_idx, new_idx) == Append(path, new_idx)

\* The old child at the index taken for unkeyed whatever its key.
OldIsAnyChild(ol, new_idx) == TRUE

\* old[new_idx].key.is_none()
OldIsUnkeyed(ol, new_idx) == At(ol, new_idx).key = None

\* The surplus old children removed from the lowest index up.
TailRemovesAscending(path, parent_id, old_len, new_len) ==
    [j \in 1..(old_len - new_len) |->
        RemoveChild(path, parent_id, new_len + j - 1)]

\* for i in (new_len..old_len).rev(): RemoveChild at i
TailRemoves(path, parent_id, old_len, new_len) ==
    [j \in 1..(old_len - new_len) |-> RemoveChild(path, parent_id, old_len - j)]

\* The unkeyed loop without its bounds guard.
UnkeyedUnguarded(ol, new_idx) == TRUE

\* new_idx < old.len(), the guard in front of old[new_idx].
UnkeyedGuard(ol, new_idx) == new_idx < Len(ol)

\* old_idx >= new.len(), the guard in front of new[old_idx].
RemoveGuard(nw, old_idx) == old_idx >= Len(nw)

\* replace_all_children removing the old children front to back.
replace_all_children_ascending(o, n, path, parent_id) ==
    Both(Ok([j \in 1..Len(o.children) |-> RemoveChild(path, parent_id, j - 1)]),
         Ok([j \in 1..Len(n.children) |->
               InsertChild(path, parent_id, j - 1, n.children[j])]))

replace_all_children(o, n, path, parent_id) ==
    LET old_len == Len(o.children)
        new_len == Len(n.children)
    IN  Both(
          Ok([j \in 1..old_len |-> RemoveChild(path, parent_id, old_len - j)]),
          All([j \in 1..new_len |->
                Read(n.children, j - 1,
                     Ok(<<InsertChild(path, parent_id, j - 1,
                                      At(n.children, j - 1))>>))]))

RECURSIVE diff_nodes(_, _, _, _)
RECURSIVE diff_children(_, _, _, _, _)
RECURSIVE diff_keyed_children(_, _, _, _, _)
RECURSIVE diff_indexed_children(_, _, _, _, _)

\* diff_nodes with the Replace patch addressed to the new node's identity.
diff_nodes_new_id(o, n, path, h) ==
    IF o.tag # n.tag
      THEN Ok(<<Replace(path, n.djust_id, n)>>)
    ELSE IF is_text(o)
      THEN IF o.text # n.text /\ IsSome(n.text)
             THEN Ok(<<SetText(path, None, Unwrap(n.text))>>)
             ELSE Ok(<< >>)
    ELSE Both(Ok(diff_attrs(o, n, path, o.djust_id, h)),
              diff_children(o, n, path, o.djust_id, h))

\* diff_nodes addressing SetText to the old text node's identity.
diff_nodes_text_id(o, n, path, h) ==
    IF o.tag # n.tag
      THEN Ok(<<Replace(path, o.djust_id, n)>>)
    ELSE IF is_text(o)
      THEN IF o.text # n.text /\ IsSome(n.text)
             THEN Ok(<<SetText(path, o.djust_id, Unwrap(n.text))>>)
             ELSE Ok(<< >>)
    ELSE Both(Ok(diff_attrs(o, n, path, o.djust_id, h)),
              diff_children(o, n, path, o.djust_id, h))

diff_nodes(o, n, path, h) ==
    LET target_id == o.djust_id
    IN  IF o.tag # n.tag
          THEN Ok(<<Replace(path, target_id, n)>>)
        ELSE IF is_text(o)
          THEN IF o.text # n.text /\ IsSome(n.text)
                 THEN Ok(<<SetText(path, None, Unwrap(n.text))>>)
                 ELSE Ok(<< >>)
        ELSE Both(Ok(diff_attrs(o, n, path, target_id, h)),
                  diff_children(o, n, path, target_id, h))

\* diff_children addressing the child patches to the new parent's identity.
diff_children_new_parent(o, n, path, parent_id, h) ==
    IF ReplaceAttr \in DOMAIN o.attrs \/ ReplaceAttr \in DOMAIN n.attrs
      THEN replace_all_children(o, n, path, n.djust_id)
    ELSE IF \E i \in DOMAIN n.children : IsSome(n.children[i].key)
      THEN diff_keyed_children(o.children, n.children, path, n.djust_id, h)
    ELSE diff_indexed_children(o.children, n.children, path, n.djust_id, h)

\* diff_children taking the keyed path when an old child carries a key too.
diff_children_old_keys(o, n, path, parent_id, h) ==
    IF ReplaceAttr \in DOMAIN o.attrs \/ ReplaceAttr \in DOMAIN n.attrs
      THEN replace_all_children(o, n, path, parent_id)
    ELSE IF \E c \in {o, n} : \E i \in DOMAIN c.children : IsSome(c.children[i].key)
      THEN diff_keyed_children(o.children, n.children, path, parent_id, h)
    ELSE diff_indexed_children(o.children, n.children, path, parent_id, h)

diff_children(o, n, path, parent_id, h) ==
    LET should_replace ==
            ReplaceAttr \in DOMAIN o.attrs \/ ReplaceAttr \in DOMAIN n.attrs
        has_keys == \E i \in DOMAIN n.children : IsSome(n.children[i].key)
    IN  IF should_replace
          THEN replace_all_children(o, n, path, parent_id)
        ELSE IF has_keys
          THEN diff_keyed_children(o.children, n.children, path, parent_id, h)
        ELSE diff_indexed_children(o.children, n.children, path, parent_id, h)

diff_keyed_children(ol, nw, path, parent_id, h) ==
    LET old_keys == KeyIndex(ol)
        new_keys == KeyIndex(nw)
        \* for (key, &old_idx) in &old_keys: hash-map iteration order
        gone == InOrder(h.keys, {k \in DOMAIN old_keys : KeyGone(new_keys, k)})
        keyed_removes ==
            [i \in DOMAIN gone |-> RemoveChild(path, parent_id, old_keys[gone[i]])]
        \* processed_old_indices after the keyed loop
        processed_keyed ==
            {old_keys[k] : k \in DOMAIN old_keys \cap DOMAIN new_keys}
        keyed(new_idx) ==
            LET new_node == nw[new_idx + 1]
                key == Unwrap(new_node.key)
                old_idx == old_keys[key]
            IN  IF new_node.key = None THEN Ok(<< >>)
                ELSE IF key \notin DOMAIN old_keys
                  THEN Ok(<<InsertChild(path, parent_id, new_idx, new_node)>>)
                ELSE Both(
                       Ok(IF Moved(old_idx, new_idx)
                            THEN <<MoveChild(path, parent_id, old_idx, new_idx)>>
                            ELSE << >>),
                       Read(ol, old_idx,
                            diff_nodes(At(ol, old_idx), new_node,
                                       ChildPath(path, old_idx, new_idx), h)))
        matched(new_idx) ==
            /\ UnkeyedGuard(ol, new_idx)
            /\ OldIsUnkeyed(ol, new_idx)
            /\ new_idx \notin processed_keyed
        unkeyed(new_idx) ==
            LET new_node == nw[new_idx + 1]
                insert == Ok(<<InsertChild(path, parent_id, new_idx, new_node)>>)
            IN  IF IsSome(new_node.key) THEN Ok(<< >>)
                ELSE IF UnkeyedGuard(ol, new_idx)
                  THEN Read(ol, new_idx,
                            IF matched(new_idx)
                              THEN diff_nodes(At(ol, new_idx), new_node,
                                              Append(path, new_idx), h)
                              ELSE insert)
                ELSE insert
        \* processed_old_indices after the unkeyed loop
        processed_old ==
            processed_keyed \cup
              {i \in 0..(Len(nw) - 1) : nw[i + 1].key = None /\ matched(i)}
        unkeyed_remove(old_idx) ==
            LET old_node == ol[old_idx + 1]
            IN  IF old_node.key = None /\ old_idx \notin processed_old
                  THEN IF RemoveGuard(nw, old_idx)
                         THEN Ok(<<RemoveChild(path, parent_id, old_idx)>>)
                       ELSE Read(nw, old_idx,
                                 IF IsSome(At(nw, old_idx).key)
                                   THEN Ok(<<RemoveChild(path, parent_id, old_idx)>>)
                                   ELSE Ok(<< >>))
                  ELSE Ok(<< >>)
    IN  All(<< Ok(keyed_removes),
               All([j \in 1..Len(nw) |-> keyed(j - 1)]),
               All([j \in 1..Len(nw) |-> unkeyed(j - 1)]),
               All([j \in 1..Len(ol) |-> unkeyed_remove(j - 1)]) >>)

diff_indexed_children(ol, nw, path, parent_id, h) ==
    LET old_len == Len(ol)
        new_len == Len(nw)
        common == Min(old_len, new_len)
    IN  All(<< All([j \in 1..common |->
                     diff_nodes(ol[j], nw[j], Append(path, j - 1), h)]),
               Ok(IF old_len > new_len
                    THEN TailRemoves(path, parent_id, old_len, new_len)
                    ELSE << >>),
               Ok(IF new_len > old_len
                    THEN [j \in 1..(new_len - old_len) |->
                            InsertChild(path, parent_id, old_len + j - 1,
                                        nw[old_len + j])]
                    ELSE << >>) >>)

----------------------------------------------------------------------------
(* patch.rs *)

\* What the applier leaves behind: the tree, and whether Vec::remove or
\* Vec::insert panicked (the tree is then whatever it was at that moment).
Tree(root) == [root |-> root, panic |-> FALSE]

Abort(st) == [st EXCEPT !.panic = TRUE]

RECURSIVE get_node(_, _)
get_node(root, path) ==
    IF path = << >> THEN Some(root)
    ELSE IF Head(path) < Len(root.children)
      THEN get_node(root.children[Head(path) + 1], Tail(path))
    ELSE None

get_node_mut(root, path) == get_node(root, path)

\* The write through the &mut VNode that get_node_mut returned for path.
RECURSIVE Assign(_, _, _)
Assign(root, path, node) ==
    IF path = << >> THEN node
    ELSE [root EXCEPT !.children[Head(path) + 1] =
                          Assign(@, Tail(path), node)]

SetChildren(st, path, cs) ==
    LET target == Unwrap(get_node_mut(st.root, path))
    IN  [st EXCEPT !.root = Assign(st.root, path, [target EXCEPT !.children = cs])]

\* The index-based move shared by apply_patch and by the branch of
\* apply_patches taken when the snapshot holds no identity:
\* children.remove(from) then children.insert(to, node).
IndexMove(st, path, from, to) ==
    LET cs == Unwrap(get_node_mut(st.root, path)).children
    IN  IF from < Len(cs) /\ to <= Len(cs)
          THEN LET rest == VecRemove(cs, from)
               IN  IF to > Len(rest)
                     THEN Abort(SetChildren(st, path, rest))
                     ELSE SetChildren(st, path, VecInsert(rest, to, cs[from + 1]))
          ELSE st

apply_patch(st, p) ==
    LET target == get_node_mut(st.root, p.path)
        t == Unwrap(target)
    IN  IF st.panic \/ target = None THEN st
        ELSE CASE p.type = "Replace" ->
                    [st EXCEPT !.root = Assign(st.root, p.path, p.node)]
               [] p.type = "SetText" ->
                    [st EXCEPT !.root =
                        Assign(st.root, p.path, [t EXCEPT !.text = Some(p.text)])]
               [] p.type = "SetAttr" ->
                    [st EXCEPT !.root =
                        Assign(st.root, p.path,
                               [t EXCEPT !.attrs = (p.key :> p.value) @@ t.attrs])]
               [] p.type = "RemoveAttr" ->
                    [st EXCEPT !.root =
                        Assign(st.root, p.path,
                               [t EXCEPT !.attrs =
                                   [k \in DOMAIN t.attrs \ {p.key} |-> t.attrs[k]]])]
               [] p.type = "InsertChild" ->
                    IF p.index <= Len(t.children)
                      THEN SetChildren(st, p.path,
                                       VecInsert(t.children, p.index, p.node))
                      ELSE st
               [] p.type = "RemoveChild" ->
                    IF p.index < Len(t.children)
                      THEN SetChildren(st, p.path, VecRemove(t.children, p.index))
                      ELSE st
               [] p.type = "MoveChild" -> IndexMove(st, p.path, p.from, p.to)

\* Vec<usize>::cmp: lexicographic, a proper prefix is smaller.
RECURSIVE PathLess(_, _)
PathLess(a, b) ==
    IF b = << >> THEN FALSE
    ELSE IF a = << >> THEN TRUE
    ELSE IF Head(a) # Head(b) THEN Head(a) < Head(b)
    ELSE PathLess(Tail(a), Tail(b))

\* No remove sorts before another: the removes keep their input order.
RemoveLessNever(a, b) == FALSE

\* Removes sorted like inserts: path ascending, index ascending.
RemoveLessAscending(a, b) ==
    PathLess(a.path, b.path) \/ (a.path = b.path /\ a.index < b.index)

\* a.0.cmp(b.0).then_with(|| b.1.cmp(&a.1)): path ascending, index descending.
RemoveLess(a, b) ==
    PathLess(a.path, b.path) \/ (a.path = b.path /\ a.index > b.index)

\* a.0.cmp(b.0).then_with(|| a.1.cmp(&b.1)): path ascending, index ascending.
InsertLess(a, b) ==
    PathLess(a.path, b.path) \/ (a.path = b.path /\ a.index < b.index)

\* slice::sort_by, a stable sort: equal elements keep their input order.
RECURSIVE SortInsert(_, _, _)
SortInsert(Less(_, _), sorted, x) ==
    IF sorted = << >> THEN <<x>>
    ELSE IF Less(x, Head(sorted)) THEN <<x>> \o sorted
    ELSE <<Head(sorted)>> \o SortInsert(Less, Tail(sorted), x)

RECURSIVE SortFrom(_, _, _)
SortFrom(Less(_, _), sorted, rest) ==
    IF rest = << >> THEN sorted
    ELSE SortFrom(Less, SortInsert(Less, sorted, Head(rest)), Tail(rest))

sort_by(s, Less(_, _)) == SortFrom(Less, << >>, s)

RECURSIVE ForEach(_, _, _)
ForEach(Step(_, _), st, ps) ==
    IF ps = << >> THEN st ELSE ForEach(Step, Step(st, Head(ps)), Tail(ps))

\* move_sources[path]: the (index, djust_id) pairs of the children the node
\* at path has in the tree as it is before any patch is applied.
MoveSource(root0, path) ==
    LET target == get_node(root0, path)
    IN  IF IsSome(target)
          THEN [i \in DOMAIN Unwrap(target).children |->
                   Unwrap(target).children[i].djust_id]
          ELSE << >>

\* A snapshot that resolves no identity: every move falls back to indices.
NoMoveChildId(root0, path, from) == None

\* sources.iter().find(|(i, _)| *i == *from).and_then(|(_, id)| id.clone())
MoveChildId(root0, path, from) ==
    LET sources == MoveSource(root0, path)
    IN  IF from < Len(sources) THEN sources[from + 1] ELSE None

ApplyRemove(st, p) ==
    LET target == get_node_mut(st.root, p.path)
    IN  IF st.panic \/ target = None THEN st
        ELSE IF p.index < Len(Unwrap(target).children)
          THEN SetChildren(st, p.path, VecRemove(Unwrap(target).children, p.index))
        ELSE st

ApplyMove(root0, st, p) ==
    LET child_id == MoveChildId(root0, p.path, p.from)
        target == get_node_mut(st.root, p.path)
        cs == Unwrap(target).children
        found == {i \in DOMAIN cs : cs[i].djust_id = child_id}
        current_pos == (CHOOSE i \in found : \A j \in found : i <= j) - 1
        rest == VecRemove(cs, current_pos)
        insert_at == Min(p.to, Len(rest))
    IN  IF st.panic \/ target = None THEN st
        ELSE IF IsSome(child_id)
          THEN IF found # {}
                 THEN SetChildren(st, p.path,
                                  VecInsert(rest, insert_at, cs[current_pos + 1]))
                 ELSE st
        ELSE IndexMove(st, p.path, p.from, p.to)

ApplyInsert(st, p) ==
    LET target == get_node_mut(st.root, p.path)
        cs == Unwrap(target).children
        insert_at == Min(p.index, Len(cs))
    IN  IF st.panic \/ target = None THEN st
        ELSE SetChildren(st, p.path, VecInsert(cs, insert_at, p.node))

\* One entry of `levels`, as positions of the patch list ps: the removes
\* sorted, the moves, the inserts sorted, the others, in the order the loops
\* of one level visit them.  lp holds the level's positions in input order.
LevelOrder(ps, lp) ==
    LET of(types) == SelectSeq(lp, LAMBDA i : ps[i].type \in types)
        removes == sort_by(of({"RemoveChild"}),
                           LAMBDA a, b : RemoveLess(ps[a], ps[b]))
        moves == of({"MoveChild"})
        inserts == sort_by(of({"InsertChild"}),
                           LAMBDA a, b : InsertLess(ps[a], ps[b]))
        others == of({"Replace", "SetText", "SetAttr", "RemoveAttr"})
    IN  removes \o moves \o inserts \o others

\* What the loops of one level do with one patch.
ApplyStep(root0, st, p) ==
    CASE p.type = "RemoveChild" -> ApplyRemove(st, p)
      [] p.type = "MoveChild" -> ApplyMove(root0, st, p)
      [] p.type = "InsertChild" -> ApplyInsert(st, p)
      [] OTHER -> apply_patch(st, p)

\* One entry of `levels`: removes, moves, inserts, others of one path length.
ApplyLevel(root0, st, ps, lp) ==
    ForEach(LAMBDA s, i : ApplyStep(root0, s, ps[i]), st, LevelOrder(ps, lp))

\* The keys of the BTreeMap `levels`, ascending.
\* The levels taken from the deepest to the shallowest.
RECURSIVE Descending(_)
Descending(S) ==
    IF S = {} THEN << >>
    ELSE LET m == CHOOSE x \in S : \A y \in S : x >= y
         IN  <<m>> \o Descending(S \ {m})

RECURSIVE Ascending(_)
Ascending(S) ==
    IF S = {} THEN << >>
    ELSE LET m == CHOOSE x \in S : \A y \in S : x <= y
         IN  <<m>> \o Ascending(S \ {m})

\* The positions of ps whose path has length d, in input order.
LevelOf(ps, d) ==
    SelectSeq([i \in DOMAIN ps |-> i], LAMBDA i : Len(ps[i].path) = d)

apply_patches(root, ps) ==
    LET depths == Ascending({Len(ps[i].path) : i \in DOMAIN ps})
    IN  ForEach(LAMBDA s, d : ApplyLevel(root, s, ps, LevelOf(ps, d)),
                Tree(root), depths)

\* The positions of ps in the order apply_patches takes them.
ApplyOrder(ps) ==
    LET depths == Ascending({Len(ps[i].path) : i \in DOMAIN ps})
    IN  Flatten([k \in DOMAIN depths |-> LevelOrder(ps, LevelOf(ps, depths[k]))])

----------------------------------------------------------------------------
(* tests/fuzz_test.rs *)

\* format!("t{}", counter)
TestId(n) == <<"t", n>>

\* assign_ids: pre-order numbering; returns the node and the counter after it.
RECURSIVE assign_ids(_, _)
RECURSIVE assign_ids_children(_, _)
assign_ids_children(cs, counter) ==
    IF cs = << >> THEN [nodes |-> << >>, counter |-> counter]
    ELSE LET first == assign_ids(Head(cs), counter)
             rest == assign_ids_children(Tail(cs), first.counter)
         IN  [nodes |-> <<first.node>> \o rest.nodes, counter |-> rest.counter]

assign_ids(node, counter) ==
    LET below == assign_ids_children(node.children, counter + 1)
    IN  [node |-> [node EXCEPT !.djust_id = Some(TestId(counter)),
                               !.children = below.nodes],
         counter |-> below.counter]

RECURSIVE Sum(_)
Sum(s) == IF s = << >> THEN 0 ELSE Head(s) + Sum(Tail(s))

RECURSIVE count_nodes(_)
count_nodes(node) ==
    1 + Sum([i \in DOMAIN node.children |-> count_nodes(node.children[i])])

RECURSIVE count_attrs(_)
count_attrs(node) ==
    Cardinality(DOMAIN node.attrs)
      + Sum([i \in DOMAIN node.children |-> count_attrs(node.children[i])])

RECURSIVE structurally_equal(_, _)
structurally_equal(a, b) ==
    LET visible(n) == [k \in DOMAIN n.attrs \ {IdAttr} |-> n.attrs[k]]
    IN  /\ a.tag = b.tag
        /\ a.text = b.text
        /\ visible(a) = visible(b)
        /\ Len(a.children) = Len(b.children)
        /\ \A i \in DOMAIN a.children :
               structurally_equal(a.children[i], b.children[i])

----------------------------------------------------------------------------
(* Inputs *)

\* The longest child list of a generated node.
MaxKids == 3

SeqsUpTo(S, n) == UNION {[1..k -> S] : k \in 0..n}

UniqueKeys(v) ==
    \A i, j \in DOMAIN v : (i # j /\ IsSome(v[i].key)) => v[i].key # v[j].key

\* HashMap iteration order is unspecified: an order of the attribute names
\* and an order of the child keys, each one of two opposite orders, so that
\* any two entries are visited in either order.
AttrOrder == <<"class", "title", "role", ReplaceAttr, "data-key", IdAttr, "data-dj">>

KeyOrder ==
    <<"a", "b", "c", "k10", "k11", "k12", "k13", "k14", "new_1", "new_2",
      "new_3", "r">>

HashOrders ==
    {[attrs |-> AttrOrder, keys |-> KeyOrder],
     [attrs |-> Reverse(AttrOrder), keys |-> Reverse(KeyOrder)]}

\* Children as arb_mixed_interleave_parent and mutate_mixed_tree make them:
\* text nodes, unkeyed elements (with or without the class attribute the
\* mutation sets) and keyed elements, one tag per key so that a reorder
\* shows in the structure.
MixedUnkeyed ==
    {VNode_text("s"), VNode_text("t"), VNode_element("em"),
     with_attr(VNode_element("em"), "class", "x")}

MixedKeyed ==
    {with_key(VNode_element("li"), "a"), with_key(VNode_element("p"), "b")}

MixedParents ==
    {with_children(VNode_element("div"), cs) :
        cs \in {v \in SeqsUpTo(MixedUnkeyed \cup MixedKeyed, MaxKids) :
                  UniqueKeys(v)}}

\* mutate_mixed_tree: every tree it can return for some byte stream.
\* format!("k{}", keyed.len() + 10)
FreshKey(n) == <<"k10", "k11", "k12", "k13", "k14">>[n + 1]

Swap(v, a, b) == [v EXCEPT ![a + 1] = v[b + 1], ![b + 1] = v[a + 1]]

\* The match on action % 5, applied to the keyed children.
MixedKeyedMutations(keyed) ==
    LET n == Len(keyed)
    IN  {keyed}
        \cup (IF n >= 2
               THEN {Swap(keyed, a, b) : a, b \in 0..(n - 1)} \cup {Reverse(keyed)}
               ELSE {})
        \cup (IF n >= 3 THEN {VecRemove(keyed, i) : i \in 0..(n - 1)} ELSE {})
        \cup {Append(keyed, with_key(VNode_element("div"), FreshKey(n)))}

\* if modify.is_multiple_of(3): text = "mod{modify}" or class = "m{modify}"
MixedModified(child) ==
    IF is_text(child) THEN [child EXCEPT !.text = Some("mod0")]
    ELSE with_attr(child, "class", "m0")

RECURSIVE MixedUnkeyedMutations(_)
MixedUnkeyedMutations(unkeyed) ==
    IF unkeyed = << >> THEN {<< >>}
    ELSE {<<c>> \o rest :
            c \in {Head(unkeyed), MixedModified(Head(unkeyed))},
            rest \in MixedUnkeyedMutations(Tail(unkeyed))}

\* for each unkeyed child in turn: children.insert(pos_seed % (len + 1), child)
RECURSIVE Interleavings(_, _)
Interleavings(children, unkeyed) ==
    IF unkeyed = << >> THEN {children}
    ELSE UNION {Interleavings(VecInsert(children, pos, Head(unkeyed)), Tail(unkeyed)) :
                  pos \in 0..Len(children)}

mutate_mixed_tree(node) ==
    LET keyed == SelectSeq(node.children, LAMBDA c : IsSome(c.key))
        unkeyed == SelectSeq(node.children, LAMBDA c : c.key = None)
    IN  {with_children(node, cs) :
           cs \in UNION {Interleavings(k, u) :
                           k \in MixedKeyedMutations(keyed),
                           u \in MixedUnkeyedMutations(unkeyed)}}

\* let mut counter = 0; assign_ids(&mut a, &mut counter);
\* assign_ids(&mut b, &mut counter);
WithIds(a, b) ==
    LET ra == assign_ids(a, 0)
        rb == assign_ids(b, ra.counter)
    IN  <<ra.node, rb.node>>

Start(a, b) ==
    /\ old = a
    /\ new = b
    /\ pc = "start"
    /\ patches = << >>
    /\ diff_panic = FALSE
    /\ patched = a
    /\ apply_panic = FALSE
    /\ order = << >>
    /\ html = << >>
    /\ id_counter = 0

Parents(tag, kids) ==
    {with_children(VNode_element(tag), cs) : cs \in SeqsUpTo(kids, MaxKids)}

\* Two independently generated trees with consistent identities, keys
\* unique among siblings (arb_keyed_tree, then assign_ids on both).
PairKids ==
    {VNode_text("s"), VNode_element("em"),
     with_key(VNode_element("li"), "a"), with_key(VNode_element("p"), "b")}

PairTrees == {a \in Parents("div", PairKids) : UniqueKeys(a.children)}

InitPairs ==
    \E a \in PairTrees, b \in PairTrees :
        Start(WithIds(a, b)[1], WithIds(a, b)[2])

\* Trees as VNode::element / VNode::text / with_key build them: no node has
\* an identity, sibling keys may repeat, child lists and attribute maps may
\* be empty.
RawKids ==
    {VNode_text("s"),
     with_key(VNode_element("li"), "a"),
     with_attr(with_attr(with_attr(with_key(VNode_element("li"), "a"),
               "class", "x"), "title", "y"), "role", "z"),
     with_key(VNode_element("p"), "b")}

RawTrees == Parents("div", RawKids)

InitRaw == \E a \in RawTrees, b \in RawTrees : Start(a, b)

\* The same without attributes: text, and two keys that may repeat.
DiffKids ==
    {VNode_text("s"), with_key(VNode_element("li"), "a"),
     with_key(VNode_element("p"), "b")}

InitDiff ==
    \E a \in Parents("div", DiffKids), b \in Parents("div", DiffKids) : Start(a, b)

\* A container and its successor: the tag may change, the class attribute
\* and the replace marker come and go, the children differ in text, in
\* attributes and below.
OldRoots ==
    {VNode_element("div"), with_attr(VNode_element("div"), "class", "x"),
     with_attr(VNode_element("div"), ReplaceAttr, "")}

NewRoots ==
    OldRoots \cup
    {VNode_element("span"), with_attr(VNode_element("span"), "class", "y"),
     with_attr(VNode_element("span"), ReplaceAttr, "")}

OldRootKids ==
    {VNode_text("s"),
     with_children(with_attr(with_key(VNode_element("p"), "a"), "class", "x"),
                   <<VNode_text("s")>>)}

NewRootKids ==
    {VNode_text("t"),
     with_children(with_key(VNode_element("p"), "a"), <<VNode_text("t")>>)}

\* The container is the root, or the only child of a root <section>.
Wrapped(node) == with_children(VNode_element("section"), <<node>>)

InitRoot ==
    \E ra \in OldRoots, rb \in NewRoots :
      \E ca \in SeqsUpTo(OldRootKids, MaxKids), cb \in SeqsUpTo(NewRootKids, MaxKids) :
        \E a \in {with_children(ra, ca), Wrapped(with_children(ra, ca))} :
          LET b == IF a.tag = "section" THEN Wrapped(with_children(rb, cb))
                   ELSE with_children(rb, cb)
          IN  Start(WithIds(a, b)[1], WithIds(a, b)[2])

\* arb_mixed_interleave_parent: at least two keyed children and at least
\* one unkeyed child.
GeneratedMixedParents ==
    {a \in MixedParents :
        /\ Cardinality(KeysOf(a.children)) >= 2
        /\ \E i \in DOMAIN a.children : a.children[i].key = None}

\* arb_mixed_interleave_pair: a mixed parent and a mutation of it.
InitMixedMut ==
    \E a \in GeneratedMixedParents :
        \E b \in mutate_mixed_tree(a) :
            Start(WithIds(a, b)[1], WithIds(a, b)[2])

\* The longest child list of a fully keyed tree, and the number of its keys.
MaxKeyedKids == 2

\* The number of nodes of one mutated tree that take a mutation other than
\* "no mutation".
MaxMutations == 2

KeyNames == <<"a", "b", "c">>

LeafTags == <<"li", "p", "dd">>

InnerTags == <<"ul", "ol", "dl">>

KeyedNode(tags, i, cs) ==
    with_children(with_key(VNode_element(tags[i]), KeyNames[i]), cs)

\* arb_fully_keyed_inner: every node is a keyed element, keys are unique
\* among siblings; one tag per key so that a reorder shows in the structure.
KeyedLeaves == {KeyedNode(LeafTags, i, << >>) : i \in 1..MaxKeyedKids}

KeyedInner ==
    {KeyedNode(InnerTags, i, cs) :
        i \in 1..MaxKeyedKids,
        cs \in {v \in SeqsUpTo(KeyedLeaves, MaxKeyedKids) : UniqueKeys(v)}}

FullyKeyedTrees ==
    {with_children(with_key(VNode_element("div"), "r"), cs) :
        cs \in {v \in SeqsUpTo(KeyedInner, MaxKeyedKids) : UniqueKeys(v)}}

\* format!("new_{}", key_counter)
NewKey(n) == <<"new_1", "new_2", "new_3">>[n]

\* The match on action % 6 in mutate_tree, applied to a node whose children
\* are already mutated: every result other than "no mutation".
OwnMutations(node, counter) ==
    LET cs == node.children
        n == Len(cs)
        put(v, c) == [node |-> with_children(node, v), counter |-> c]
    IN  (IF n >= 2
           THEN {put(Swap(cs, a, b), counter) : a, b \in 0..(n - 1)}
                \cup {put(Reverse(cs), counter)}
           ELSE {})
        \cup (IF n >= 1 THEN {put(VecRemove(cs, i), counter) : i \in 0..(n - 1)}
                         ELSE {})
        \cup {put(VecInsert(cs, pos,
                            with_key(VNode_element("div"), NewKey(counter + 1))),
                  counter + 1) : pos \in 0..n}
        \cup {[node |-> with_attr(node, "class", "m3"), counter |-> counter]}

\* mutate_tree: every (tree, key_counter) it can return for some byte stream
\* in which at most `budget` nodes draw a mutation.
RECURSIVE mutate_tree(_, _, _)
RECURSIVE mutate_children(_, _, _)
mutate_children(cs, budget, counter) ==
    IF cs = << >> THEN {[nodes |-> << >>, budget |-> budget, counter |-> counter]}
    ELSE UNION {
           {[nodes |-> <<first.node>> \o rest.nodes, budget |-> rest.budget,
             counter |-> rest.counter] :
              rest \in mutate_children(Tail(cs), first.budget, first.counter)} :
           first \in mutate_tree(Head(cs), budget, counter)}

mutate_tree(node, budget, counter) ==
    IF IsSome(node.text)
      THEN {[node |-> node, budget |-> budget, counter |-> counter]}
    ELSE UNION {
           LET result == with_children(node, below.nodes)
           IN  {[node |-> result, budget |-> below.budget,
                 counter |-> below.counter]}
               \cup (IF below.budget > 0
                       THEN {[node |-> m.node, budget |-> below.budget - 1,
                              counter |-> m.counter] :
                               m \in OwnMutations(result, below.counter)}
                       ELSE {}) :
           below \in mutate_children(node.children, budget, counter)}

\* arb_keyed_mutation_pair: a fully keyed tree and a mutation of it.
InitKeyedMut ==
    \E a \in FullyKeyedTrees :
        \E m \in mutate_tree(a, MaxMutations, 0) :
            Start(WithIds(a, m.node)[1], WithIds(a, m.node)[2])

----------------------------------------------------------------------------
(* Actions *)

\* let patches = diff_nodes(&a, &b, &[]);
Diff ==
    /\ pc = "start"
    /\ \E h \in HashOrders :
          LET r == diff_nodes(old, new, << >>, h)
          IN  /\ patches' = r.patches
              /\ diff_panic' = r.panic
              /\ pc' = IF r.panic THEN "panicked" ELSE "diffed"
    /\ UNCHANGED <<old, new, patched, apply_panic, order, html, id_counter>>

\* let mut patched = a.clone(); apply_patches(&mut patched, &patches);
ApplyPatches ==
    /\ pc = "diffed"
    /\ LET s == apply_patches(old, patches)
       IN  /\ patched' = s.root
           /\ apply_panic' = s.panic
           /\ pc' = IF s.panic THEN "panicked" ELSE "applied"
    /\ order' = ApplyOrder(patches)
    /\ UNCHANGED <<old, new, patches, diff_panic, html, id_counter>>

\* apply_patch(&mut root, &patch) for one patch of the list.
ApplyPatch ==
    /\ pc = "diffed"
    /\ \E i \in DOMAIN patches :
          LET s == apply_patch(Tree(old), patches[i])
          IN  /\ patched' = s.root
              /\ apply_panic' = s.panic
              /\ pc' = IF s.panic THEN "panicked_one" ELSE "applied_one"
              /\ order' = <<i>>
    /\ UNCHANGED <<old, new, patches, diff_panic, html, id_counter>>

Next == Diff \/ ApplyPatches

NextEach == Diff \/ ApplyPatches \/ ApplyPatch

SpecPairs == InitPairs /\ [][Next]_vars

SpecRaw == InitRaw /\ [][NextEach]_vars

\* diff_nodes alone, on trees without identities.
SpecDiff == InitDiff /\ [][Diff]_vars

SpecRoot == InitRoot /\ [][Next]_vars

SpecMixedMut == InitMixedMut /\ [][Next]_vars

SpecKeyedMut == InitKeyedMut /\ [][Next]_vars

----------------------------------------------------------------------------
(* Round trip of independently generated trees *)

\* C1: for two trees with unique identities and unique keys among siblings,
\* applying diff(A, B) to a copy of A gives a tree structurally equal to B.
RoundTripAnyPair == pc = "applied" => structurally_equal(patched, new)

\* Old children [a, b], new children [b, a]: two keyed elements with
\* unchanged content, in opposite orders.
KeyedSwap ==
    /\ Len(old.children) = 2 /\ Len(new.children) = 2
    /\ IsSome(old.children[1].key) /\ IsSome(old.children[2].key)
    /\ old.children[1].key # old.children[2].key
    /\ new.children[1].key = old.children[2].key
    /\ new.children[2].key = old.children[1].key
    /\ structurally_equal(new.children[1], old.children[2])
    /\ structurally_equal(new.children[2], old.children[1])

\* C6 (amended): for old children [a, b] and new children [b, a] the diff is
\* exactly two MoveChild patches, b from 1 to 0 and then a from 0 to 1, both
\* addressed to the parent, and apply_patches on the old tree gives [b, a].
KeyedSwapTwoMoves ==
    (pc \in {"diffed", "applied"} /\ KeyedSwap) =>
        /\ patches = <<MoveChild(<< >>, old.djust_id, 1, 0),
                       MoveChild(<< >>, old.djust_id, 0, 1)>>
        /\ pc = "applied" => structurally_equal(patched, new)

KeyedSwapApplied == pc = "applied" /\ KeyedSwap /\ IsSome(old.djust_id)

\* C6: for old children [a, b] and new children [b, a] the diff is exactly
\* one MoveChild and no other patch, and applying it gives [b, a].
KeyedSwapOneMove ==
    (pc \in {"diffed", "applied"} /\ KeyedSwap) =>
        /\ Len(patches) = 1
        /\ patches[1].type = "MoveChild"
        /\ pc = "applied" => structurally_equal(patched, new)

----------------------------------------------------------------------------
(* Round trip of a tree and its mutation *)

RECURSIVE FullyKeyed(_)
FullyKeyed(node) ==
    /\ IsSome(node.key)
    /\ \A i \in DOMAIN node.children : FullyKeyed(node.children[i])

\* C7: for a tree whose every node is keyed and a mutation of it (children
\* reordered, removed, inserted, attributes changed, at any depth), applying
\* the diff to the old tree gives a tree structurally equal to the mutation.
RoundTripKeyedMutation ==
    (pc = "applied" /\ FullyKeyed(old) /\ FullyKeyed(new)) =>
        structurally_equal(patched, new)

\* C8: for a parent with keyed and unkeyed children and a mutation of it
\* (keyed children reordered, removed, added; unkeyed children modified and
\* re-interleaved), applying the diff gives the mutation.
RoundTripMixedInterleave ==
    (/\ pc = "applied"
     /\ \E i \in DOMAIN old.children : old.children[i].key = None
     /\ \E i \in DOMAIN old.children : IsSome(old.children[i].key))
        => structurally_equal(patched, new)

----------------------------------------------------------------------------
(* The container: replace-all mode and tag mismatch *)

ContainerPath == IF old.tag = "section" THEN <<0>> ELSE << >>

OldContainer == IF old.tag = "section" THEN old.children[1] ELSE old

NewContainer == IF old.tag = "section" THEN new.children[1] ELSE new

ReplaceMode ==
    /\ OldContainer.tag = NewContainer.tag
    /\ \/ ReplaceAttr \in DOMAIN OldContainer.attrs
       \/ ReplaceAttr \in DOMAIN NewContainer.attrs

\* The patches that concern the container's children or anything below.
ChildPatches ==
    SelectSeq(patches,
              LAMBDA p : \/ p.type \in {"InsertChild", "RemoveChild", "MoveChild"}
                         \/ p.path # ContainerPath)

\* C9: when the old or the new container carries data-djust-replace, the
\* patches for its children are one RemoveChild per old child, for indices
\* old_len - 1 down to 0, then one InsertChild per new child, for indices 0
\* to new_len - 1, each with the container's path and the old container's
\* identity, and nothing else at or below the children.
ReplaceAllExact ==
    (pc \in {"diffed", "applied"} /\ ReplaceMode) =>
        LET old_len == Len(OldContainer.children)
            new_len == Len(NewContainer.children)
        IN  ChildPatches =
              [i \in 1..old_len |->
                 RemoveChild(ContainerPath, OldContainer.djust_id, old_len - i)]
              \o [j \in 1..new_len |->
                    InsertChild(ContainerPath, OldContainer.djust_id, j - 1,
                                NewContainer.children[j])]

\* Three old children, two new ones, under a marked container below the root.
ReplaceAllThreeToTwo ==
    /\ pc = "diffed"
    /\ ReplaceMode
    /\ ContainerPath = <<0>>
    /\ IsSome(OldContainer.djust_id)
    /\ Len(OldContainer.children) = 3
    /\ Len(NewContainer.children) = 2

\* C10: when the old and the new node at one position have different tags,
\* the diff is exactly one Replace patch with the position's path, the old
\* node's identity and the whole new node.
TagMismatchOneReplace ==
    (pc \in {"diffed", "applied"} /\ OldContainer.tag # NewContainer.tag) =>
        patches = <<Replace(ContainerPath, OldContainer.djust_id, NewContainer)>>

\* A <div> against a <span> below the root, with different attributes and
\* different children.
TagMismatchBelowRoot ==
    /\ pc = "diffed"
    /\ OldContainer.tag = "div" /\ NewContainer.tag = "span"
    /\ ContainerPath = <<0>>
    /\ OldContainer.djust_id # NewContainer.djust_id
    /\ DOMAIN OldContainer.attrs # DOMAIN NewContainer.attrs
    /\ Len(OldContainer.children) = 2
    /\ Len(NewContainer.children) = 1

----------------------------------------------------------------------------
(* Trees without identities, with repeated keys *)

\* C2: the diff of a tree against itself is the empty patch list.
IdentityDiff == (pc = "diffed" /\ old = new) => patches = << >>

\* C3: neither apply_patch nor apply_patches aborts on a patch list that
\* diff_nodes produced.
ApplyNeverAborts == ~apply_panic

\* C4: diff_nodes returns a patch list for every pair of trees and reads no
\* child list out of range on the way.
DiffTerminatesInBounds ==
    /\ ~diff_panic
    /\ pc = "start" =>
          \A h \in HashOrders :
              LET r == diff_nodes(old, new, << >>, h)
              IN  ~r.panic /\ Len(r.patches) >= 0

\* The old children repeat a key, the new list is keyed, longer than the old
\* one, and ends in an unkeyed child beyond the old list's length.
DiffPastOldLength ==
    /\ pc = "diffed"
    /\ old.djust_id = None
    /\ ~UniqueKeys(old.children)
    /\ Len(new.children) > Len(old.children)
    /\ new.children[Len(new.children)].key = None
    /\ \E i \in DOMAIN new.children : IsSome(new.children[i].key)

\* C5: diff_nodes returns at most
\* count_nodes(A) + count_nodes(B) + count_attrs(A) + count_attrs(B) patches.
PatchCountBounded ==
    pc = "diffed" =>
        Len(patches) <= count_nodes(old) + count_nodes(new)
                        + count_attrs(old) + count_attrs(new)

----------------------------------------------------------------------------
(* Attributes *)

\* The most attributes of a generated element.
MaxAttrs == 2

\* attributes.insert("data-dj".to_string(), djust_id): the attribute under
\* which the parser stores an element's identity.
ParserIdAttr == "data-dj"

\* if attr_name == "data-key": the attribute the parser copies into `key`.
KeyAttr == "data-key"

ReservedAttrs == {ParserIdAttr, KeyAttr}

AttrNames == {"class", "title", KeyAttr, ParserIdAttr, IdAttr}

AttrMaps ==
    UNION {[S -> {"a", "b"}] :
             S \in {T \in SUBSET AttrNames : Cardinality(T) <= MaxAttrs}}

\* Two <div> elements, at the root or below a <section>, each with its own
\* attribute map.
InitAttrs ==
    \E ma \in AttrMaps, mb \in AttrMaps, below \in BOOLEAN :
        LET a == [VNode_element("div") EXCEPT !.attrs = ma]
            b == [VNode_element("div") EXCEPT !.attrs = mb]
            ra == IF below THEN Wrapped(a) ELSE a
            rb == IF below THEN Wrapped(b) ELSE b
        IN  Start(WithIds(ra, rb)[1], WithIds(ra, rb)[2])

SpecAttrs == InitAttrs /\ [][Next]_vars

\* The attribute patches the compared pair calls for: one per attribute that
\* is not reserved and differs in presence or in value.
ExpectedAttrPatches ==
    LET o == OldContainer.attrs
        n == NewContainer.attrs
    IN  {RemoveAttr(ContainerPath, OldContainer.djust_id, k) :
            k \in (DOMAIN o \ DOMAIN n) \ ReservedAttrs}
        \cup {SetAttr(ContainerPath, OldContainer.djust_id, k, n[k]) :
                k \in {x \in DOMAIN n \ ReservedAttrs :
                         x \notin DOMAIN o \/ o[x] # n[x]}}

\* C11: for two elements of one tag the diff holds exactly one patch per
\* non-reserved attribute that differs in presence or value (RemoveAttr when
\* only the old node has it, SetAttr with the new value otherwise), with the
\* node's path and the old node's identity, and no patch for another key.
AttrDiffExact ==
    pc = "diffed" =>
        /\ {patches[i] : i \in DOMAIN patches} = ExpectedAttrPatches
        /\ Len(patches) = Cardinality(ExpectedAttrPatches)

\* C12: no SetAttr and no RemoveAttr of a diff names the attribute that
\* carries the parser's identity or the data-key attribute.
ReservedNeverPatched ==
    \A i \in DOMAIN patches :
        patches[i].type \in {"SetAttr", "RemoveAttr"} =>
            patches[i].key \notin ReservedAttrs

----------------------------------------------------------------------------
(* Patch targets *)

RECURSIVE NodesOf(_)
NodesOf(node) ==
    {node} \cup UNION {NodesOf(node.children[i]) : i \in DOMAIN node.children}

IdsOf(node) == {x.djust_id : x \in NodesOf(node)} \ {None}

\* The node of the old tree that carries identity d.
OldById(d) == CHOOSE x \in NodesOf(old) : x.djust_id = d

\* What one patch says about the pair it was emitted for: the new node of
\* the pair sits at the patch's path in the new tree, the old node is the
\* one the patch's identity names.
TargetsOldNode(p) ==
    LET at == get_node(new, p.path)
        n == Unwrap(at)
        o == OldById(p.d)
    IN  IF p.type = "SetText" THEN p.d = None
        ELSE /\ p.d \in IdsOf(old)
             /\ p.d \notin IdsOf(new)
             /\ IsSome(at)
             /\ CASE p.type = "Replace" -> n = p.node /\ o.tag # n.tag
                  [] p.type = "SetAttr" ->
                        /\ o.tag = n.tag
                        /\ p.key \in DOMAIN n.attrs /\ n.attrs[p.key] = p.value
                        /\ p.key \in DOMAIN o.attrs => o.attrs[p.key] # p.value
                  [] p.type = "RemoveAttr" ->
                        /\ o.tag = n.tag
                        /\ p.key \in DOMAIN o.attrs /\ p.key \notin DOMAIN n.attrs
                  [] p.type = "InsertChild" ->
                        /\ o.tag = n.tag
                        /\ p.index < Len(n.children)
                        /\ n.children[p.index + 1] = p.node
                  [] p.type = "RemoveChild" ->
                        o.tag = n.tag /\ p.index < Len(o.children)
                  [] p.type = "MoveChild" ->
                        /\ o.tag = n.tag
                        /\ p.from < Len(o.children) /\ p.to < Len(n.children)
                        /\ o.children[p.from + 1].key = n.children[p.to + 1].key

\* C13: Replace, SetAttr and RemoveAttr carry the identity of the old node
\* of the compared pair, InsertChild, RemoveChild and MoveChild the identity
\* of the old parent; no patch is addressed to an identity of the new tree.
PatchesTargetOldTree ==
    pc \in {"diffed", "applied"} =>
        \A i \in DOMAIN patches : TargetsOldNode(patches[i])

\* A diff below the root that moves a child, edits a child list and removes
\* an attribute of a child.
TargetsOfEveryKind ==
    /\ pc = "diffed"
    /\ ContainerPath = <<0>>
    /\ \E i \in DOMAIN patches : patches[i].type = "MoveChild"
    /\ \E i \in DOMAIN patches :
          patches[i].type = "RemoveAttr" /\ Len(patches[i].path) = 2
    /\ \E i \in DOMAIN patches : patches[i].type = "InsertChild"
    /\ \E i \in DOMAIN patches : patches[i].type = "SetText"

----------------------------------------------------------------------------
(* Text nodes *)

\* Unkeyed children: two texts and an element.
TextKids == {VNode_text("s"), VNode_text("t"), VNode_element("em")}

\* Two parents with unkeyed children, at the root or below a <section>;
\* assign_ids gives the text nodes identities too.
InitText ==
    \E a \in Parents("div", TextKids), b \in Parents("div", TextKids),
       below \in BOOLEAN :
        LET ra == IF below THEN Wrapped(a) ELSE a
            rb == IF below THEN Wrapped(b) ELSE b
        IN  Start(WithIds(ra, rb)[1], WithIds(ra, rb)[2])

SpecText == InitText /\ [][Next]_vars

PatchesAt(path) == SelectSeq(patches, LAMBDA p : p.path = path)

\* C14: for a pair of text nodes the diff holds exactly one SetText with the
\* new text, the node's path and no identity when the texts differ, nothing
\* when they are equal, and never an attribute or child patch.
TextPairSetText ==
    pc \in {"diffed", "applied"} =>
        \A i \in DOMAIN OldContainer.children \cap DOMAIN NewContainer.children :
            LET o == OldContainer.children[i]
                n == NewContainer.children[i]
                path == Append(ContainerPath, i - 1)
            IN  (is_text(o) /\ is_text(n)) =>
                    PatchesAt(path) =
                        IF o.text # n.text
                          THEN <<SetText(path, None, Unwrap(n.text))>>
                          ELSE << >>

\* Below the root, one text pair that differs and one that is equal, the old
\* text nodes carrying identities.
TextPairsBothWays ==
    /\ pc = "diffed"
    /\ ContainerPath = <<0>>
    /\ \E i, j \in DOMAIN OldContainer.children \cap DOMAIN NewContainer.children :
          /\ is_text(OldContainer.children[i]) /\ is_text(NewContainer.children[i])
          /\ OldContainer.children[i].text # NewContainer.children[i].text
          /\ IsSome(OldContainer.children[i].djust_id)
          /\ is_text(OldContainer.children[j]) /\ is_text(NewContainer.children[j])
          /\ OldContainer.children[j].text = NewContainer.children[j].text

----------------------------------------------------------------------------
(* The applier on arbitrary patch lists *)

\* The longest patch list handed to the applier.
MaxPatches == 2

\* Trees with identities on every node: lists <ul>[<li>, <p>] and an empty
\* <ol> below the root.
ApplyTrees ==
    LET ul == with_children(VNode_element("ul"),
                            <<VNode_element("li"), VNode_element("p")>>)
        ol == VNode_element("ol")
        root(cs) == assign_ids(with_children(VNode_element("div"), cs), 0).node
    IN  {root(<<ul>>), root(<<ul, ol>>), root(<<ol, ul>>), root(<<ul, ul>>)}

\* The node a patch inserts or puts in place of another.
Fresh == [VNode_element("em") EXCEPT !.djust_id = Some(TestId(9))]

\* Patches whatever produced them: paths that resolve and paths that do not,
\* indices in and out of range.
ApplyPatchUniverse ==
    {RemoveChild(<<0>>, None, i) : i \in {0, 1, 5}}
    \cup {RemoveChild(<< >>, None, 0)}
    \cup {InsertChild(<<0>>, None, i, Fresh) : i \in {0, 1, 5}}
    \cup {InsertChild(<< >>, None, 0, Fresh)}
    \cup {MoveChild(<<0>>, None, ft[1], ft[2]) :
            ft \in {<<0, 1>>, <<1, 0>>, <<0, 5>>, <<5, 0>>}}
    \cup {MoveChild(<<1>>, None, 0, 1)}
    \cup {SetAttr(<<1>>, None, "class", "x"), SetAttr(<<3>>, None, "class", "x"),
          Replace(<<0, 0>>, None, Fresh)}

InitApply ==
    \E t \in ApplyTrees, ps \in SeqsUpTo(ApplyPatchUniverse, MaxPatches) :
        /\ old = t
        /\ new = t
        /\ pc = "diffed"
        /\ patches = ps
        /\ diff_panic = FALSE
        /\ patched = t
        /\ apply_panic = FALSE
        /\ order = << >>
        /\ html = << >>
        /\ id_counter = 0

NextApply == ApplyPatches \/ ApplyPatch

SpecApply == InitApply /\ [][NextApply]_vars

\* The applier's state after the first k patches of `order`.
Replay(k) ==
    ForEach(LAMBDA st, i : IF pc \in {"applied_one", "panicked_one"}
                             THEN apply_patch(st, patches[i])
                             ELSE ApplyStep(old, st, patches[i]),
            Tree(old), SubSeq(order, 1, k))

\* A patch that cannot be resolved in a tree: its path leads nowhere, an
\* index lies beyond the target's child list, or (in a batch) the child the
\* snapshot names for a move is no longer among the target's children.
Unresolvable(root, p) ==
    LET target == get_node(root, p.path)
        cs == Unwrap(target).children
        id == MoveChildId(old, p.path, p.from)
    IN  \/ target = None
        \/ p.type = "RemoveChild" /\ p.index >= Len(cs)
        \/ p.type = "InsertChild" /\ p.index > Len(cs)
        \/ p.type = "MoveChild" /\ p.to > Len(cs)
        \/ p.type = "MoveChild" /\ p.from >= Len(cs) /\ id = None
        \/ /\ p.type = "MoveChild"
           /\ pc \in {"applied", "panicked"}
           /\ IsSome(id)
           /\ \A i \in DOMAIN cs : cs[i].djust_id # id

\* C15: a patch that cannot be resolved when its turn comes leaves the tree
\* exactly as it was, and all patches of the batch get their turn.
UnresolvedIsNoOp ==
    pc \in {"applied", "panicked", "applied_one", "panicked_one"} =>
        /\ \A k \in DOMAIN order :
              (~Replay(k - 1).panic
               /\ Unresolvable(Replay(k - 1).root, patches[order[k]]))
                  => Replay(k) = Replay(k - 1)
        /\ pc \in {"applied", "panicked"} =>
              /\ Len(order) = Len(patches)
              /\ {order[k] : k \in DOMAIN order} = DOMAIN patches
        /\ patched = Replay(Len(order)).root

\* C18: apply_patches takes every patch of the list exactly once, and a
\* patch with a shorter path always before a patch with a longer one,
\* wherever they stand in the input list; the tree it leaves is the one
\* those steps make in that order.
ShallowBeforeDeep ==
    pc = "applied" =>
        /\ Len(order) = Len(patches)
        /\ {order[k] : k \in DOMAIN order} = DOMAIN patches
        /\ \A j, k \in DOMAIN order :
              j < k => Len(patches[order[j]].path) <= Len(patches[order[k]].path)
        /\ patched = Replay(Len(order)).root

\* A batch that lists a patch two levels down before a child-list edit of
\* its parent: the edit is applied first.
DeepListedFirst ==
    /\ pc = "applied"
    /\ Len(patches) = 2
    /\ patches[1].type = "Replace"
    /\ patches[2].type \in {"RemoveChild", "InsertChild", "MoveChild"}
    /\ patches[1].path = patches[2].path \o <<0>>
    /\ order = <<2, 1>>
    /\ patched # old

\* The phase of a patch within its level.
Phase(p) ==
    CASE p.type = "RemoveChild" -> 1
      [] p.type = "MoveChild" -> 2
      [] p.type = "InsertChild" -> 3
      [] OTHER -> 4

\* C19: among the patches of one path length, removes come first, then
\* moves, then inserts, then the rest; removes of one parent by descending
\* index, inserts of one parent by ascending index, moves and the rest in
\* the order of the input list.
PhasesWithinLevel ==
    pc = "applied" =>
        \A j, k \in DOMAIN order :
            LET a == patches[order[j]]
                b == patches[order[k]]
            IN  (j < k /\ Len(a.path) = Len(b.path)) =>
                    /\ Phase(a) <= Phase(b)
                    /\ (Phase(a) = 1 /\ Phase(b) = 1 /\ a.path = b.path)
                          => a.index >= b.index
                    /\ (Phase(a) = 3 /\ Phase(b) = 3 /\ a.path = b.path)
                          => a.index <= b.index
                    /\ (Phase(a) = Phase(b) /\ Phase(a) \in {2, 4})
                          => order[j] < order[k]

\* Two removes of one parent listed by ascending index: the higher index is
\* removed first and both children are gone.
RemovesListedAscending ==
    /\ pc = "applied"
    /\ Len(patches) = 2
    /\ patches[1].type = "RemoveChild"
    /\ patches[2].type = "RemoveChild"
    /\ patches[1].path = patches[2].path
    /\ patches[1].index < patches[2].index
    /\ order = <<2, 1>>
    /\ Len(Unwrap(get_node(patched, patches[1].path)).children) + 2
          = Len(Unwrap(get_node(old, patches[1].path)).children)

\* The child list a move by identity leaves: the child `id` taken out of cs
\* and put back at min(to, length).
MovedById(cs, id, to) ==
    LET i == CHOOSE j \in DOMAIN cs : cs[j].djust_id = id
        rest == VecRemove(cs, i - 1)
    IN  VecInsert(rest, Min(to, Len(rest)), cs[i])

\* One MoveChild step of a batch moved the child that sat at `from` of its
\* target in the original tree, whenever the target is a node of the
\* original tree and that child is still among its children.
MovesOriginalChild(k) ==
    LET p == patches[order[k]]
        target == get_node(Replay(k - 1).root, p.path)
        after == get_node(Replay(k).root, p.path)
        parent == Unwrap(target)
        original == OldById(parent.djust_id)
        child == original.children[p.from + 1]
    IN  (/\ p.type = "MoveChild"
         /\ IsSome(target)
         /\ IsSome(parent.djust_id)
         /\ \E x \in NodesOf(old) : x.djust_id = parent.djust_id
         /\ p.from < Len(original.children)
         /\ IsSome(child.djust_id)
         /\ \E j \in DOMAIN parent.children :
               parent.children[j].djust_id = child.djust_id)
        => /\ IsSome(after)
           /\ Unwrap(after).children
                 = MovedById(parent.children, child.djust_id, p.to)

\* C20: every MoveChild of a batch moves, by identity, the child that sat at
\* index `from` of its target in the original tree, to index
\* min(to, current length).
MoveChildMovesOriginalChild ==
    pc = "applied" => \A k \in DOMAIN order : MovesOriginalChild(k)

----------------------------------------------------------------------------
(* parser.rs *)

\* The alphabet of the identity encoding.
Base62Chars ==
    <<"0", "1", "2", "3", "4", "5", "6", "7", "8", "9",
      "a", "b", "c", "d", "e", "f", "g", "h", "i", "j", "k", "l", "m",
      "n", "o", "p", "q", "r", "s", "t", "u", "v", "w", "x", "y", "z",
      "A", "B", "C", "D", "E", "F", "G", "H", "I", "J", "K", "L", "M",
      "N", "O", "P", "Q", "R", "S", "T", "U", "V", "W", "X", "Y", "Z">>

RECURSIVE to_base62(_)
to_base62(n) ==
    LET base == Len(Base62Chars)
    IN  IF n < base
          THEN Base62Chars[n + 1]
          ELSE to_base62(n \div base) \o Base62Chars[(n % base) + 1]

\* next_djust_id(): the encoding of the counter, and the counter advanced.
next_djust_id(c) == [id |-> to_base62(c), counter |-> c + 1]

\* reset_id_counter(): the value the counter is set to.
reset_id_counter == 0

\* markup5ever_rcdom nodes.
NodeData_Document(children) == [data |-> "Document", children |-> children]

NodeData_Element(name, attrs, children) ==
    [data |-> "Element", name |-> name, attrs |-> attrs, children |-> children]

NodeData_Text(contents) == [data |-> "Text", contents |-> contents]

NodeData_Comment == [data |-> "Comment"]

Attribute(name, value) == [name |-> name, value |-> value]

\* The texts whose characters are all whitespace.
WhitespaceTexts == {"", " ", "\n  "}

AllWhitespace(text) == text \in WhitespaceTexts

IsElementNamed(handle, name) == handle.data = "Element" /\ handle.name = name

\* find_root: the first element child of <body>, else the first element
\* child of the document, else the document itself.
find_root(handle) ==
    LET cs == handle.children
        htmls == SelectSeq(cs, LAMBDA c : IsElementNamed(c, "html"))
        bodies == Flatten([i \in DOMAIN htmls |->
                      SelectSeq(htmls[i].children,
                                LAMBDA c : IsElementNamed(c, "body"))])
        content == Flatten([i \in DOMAIN bodies |->
                      SelectSeq(bodies[i].children,
                                LAMBDA c : c.data = "Element")])
        elements == SelectSeq(cs, LAMBDA c : c.data = "Element")
    IN  IF content # << >> THEN content[1]
        ELSE IF elements # << >> THEN elements[1]
        ELSE handle

\* The markup that sets a value for every name in the markup's order.
LastValue(attrs, name) ==
    LET hits == SelectSeq(attrs, LAMBDA a : a.name = name)
    IN  hits[Len(hits)].value

\* The key of an element: its non-empty data-key.
ElementKeyAnyValue(attrs) ==
    LET hits == SelectSeq(attrs, LAMBDA a : a.name = KeyAttr)
    IN  IF hits = << >> THEN None ELSE Some(hits[Len(hits)].value)

ElementKey(attrs) ==
    LET hits == SelectSeq(attrs, LAMBDA a : a.name = KeyAttr /\ a.value # "")
    IN  IF hits = << >> THEN None ELSE Some(hits[Len(hits)].value)

\* The attribute map of an element: the generated data-dj, then every
\* attribute of the markup but data-dj.
ElementAttributes(attrs, djust_id) ==
    LET kept == SelectSeq(attrs, LAMBDA a : a.name # ParserIdAttr)
    IN  [k \in {ParserIdAttr} \cup {kept[i].name : i \in DOMAIN kept} |->
            IF \E i \in DOMAIN kept : kept[i].name = k
              THEN LastValue(kept, k)
              ELSE djust_id]

RECURSIVE handle_to_vnode(_, _)
RECURSIVE ConvertChildren(_, _)

\* The loop over an element's children: comments and whitespace-only texts
\* are skipped.  The counter runs through the children in order.
ConvertChildren(hs, c) ==
    IF hs = << >> THEN [children |-> << >>, counter |-> c]
    ELSE IF Head(hs).data = "Comment" THEN ConvertChildren(Tail(hs), c)
    ELSE LET r == handle_to_vnode(Head(hs), c)
             rest == ConvertChildren(Tail(hs), r.counter)
             keep == \/ ~is_text(r.node)
                     \/ /\ IsSome(r.node.text)
                        /\ ~AllWhitespace(Unwrap(r.node.text))
         IN  [children |-> IF keep THEN <<r.node>> \o rest.children
                                   ELSE rest.children,
              counter |-> rest.counter]

RECURSIVE FirstElement(_, _)
\* The Document arm: the first child that converts to an element.
FirstElement(hs, c) ==
    IF hs = << >> THEN [node |-> VNode_element("div"), counter |-> c]
    ELSE LET r == handle_to_vnode(Head(hs), c)
         IN  IF ~is_text(r.node) THEN r ELSE FirstElement(Tail(hs), r.counter)

handle_to_vnode(handle, c) ==
    CASE handle.data = "Text" ->
           [node |-> VNode_text(handle.contents), counter |-> c]
      [] handle.data = "Element" ->
           LET id == next_djust_id(c)
               kids == ConvertChildren(handle.children, id.counter)
           IN  [node |-> [VNode_element(handle.name) EXCEPT
                            !.djust_id = Some(id.id),
                            !.attrs = ElementAttributes(handle.attrs, id.id),
                            !.key = ElementKey(handle.attrs),
                            !.children = kids.children],
                counter |-> kids.counter]
      [] handle.data = "Document" -> FirstElement(handle.children, c)
      [] OTHER -> [node |-> VNode_element("div"), counter |-> c]

\* parse_html without the reset: the numbering goes on from the counter `c`.
parse_html_no_reset(document, c) == handle_to_vnode(find_root(document), c)

\* parse_html on the document html5ever built from the markup, with the
\* process-wide counter at `c` when the call is made.
parse_html(document, c) ==
    handle_to_vnode(find_root(document), reset_id_counter)

\* The most children an element of the markup has.
MaxHandles == 3

Li(attrs) == NodeData_Element("li", attrs, << >>)

\* Children of the markup's root: texts, a whitespace-only text, a comment,
\* items with and without a data-key value, an item whose markup sets
\* data-dj, and a nested list.
HandleKids ==
    {NodeData_Text("hi"), NodeData_Text(" "), NodeData_Comment,
     Li(<<Attribute(KeyAttr, "a")>>),
     Li(<<Attribute(KeyAttr, ""), Attribute("class", "x")>>),
     Li(<<Attribute(ParserIdAttr, "zz"), Attribute(KeyAttr, "b")>>),
     NodeData_Element("ul", << >>, <<Li(<< >>), NodeData_Text("hi")>>)}

\* html5ever wraps the content in <html><head/><body>content</body></html>.
Page(content) ==
    NodeData_Document(
        <<NodeData_Element("html", << >>,
            <<NodeData_Element("head", << >>, << >>),
              NodeData_Element("body", << >>, content)>>)>>)

RootDiv(cs) == NodeData_Element("div", << >>, cs)

\* The second render of a template: the same children, reordered (all
\* reversed, or the first two exchanged) or with the first one gone.
Rerenders(cs) ==
    {cs, Reverse(cs)}
    \cup (IF cs = << >> THEN {} ELSE {Tail(cs)})
    \cup (IF Len(cs) < 2 THEN {} ELSE {<<cs[2], cs[1]>> \o Tail(Tail(cs))})

\* Markup without an element in its body, or with text before the element.
BareContents ==
    {<< >>, <<NodeData_Text("hi")>>,
     <<NodeData_Text("hi"), NodeData_Element("p", << >>, << >>)>>}

\* html5ever appends character data to a preceding text node: no two
\* texts are adjacent in the tree it builds.
NoAdjacentTexts(cs) ==
    \A i \in 1..(Len(cs) - 1) : ~(cs[i].data = "Text" /\ cs[i + 1].data = "Text")

InitParse ==
    /\ \/ \E a \in {cs \in SeqsUpTo(HandleKids, MaxHandles) : NoAdjacentTexts(cs)} :
             \E b \in {cs \in Rerenders(a) : NoAdjacentTexts(cs)} :
                html = <<Page(<<RootDiv(a)>>), Page(<<RootDiv(b)>>)>>
       \/ \E c \in BareContents : html = <<Page(c), Page(c)>>
    /\ id_counter = 0
    /\ old = VNode_element("div")
    /\ new = VNode_element("div")
    /\ pc = "html"
    /\ patches = << >>
    /\ diff_panic = FALSE
    /\ patched = VNode_element("div")
    /\ apply_panic = FALSE
    /\ order = << >>

\* let old = parse_html(first)?; let new = parse_html(second)?;
ParseHtml ==
    /\ pc \in {"html", "parsed"}
    /\ LET r == parse_html(html[IF pc = "html" THEN 1 ELSE 2], id_counter)
       IN  /\ id_counter' = r.counter
           /\ IF pc = "html"
                THEN old' = r.node /\ new' = new /\ pc' = "parsed"
                ELSE new' = r.node /\ old' = old /\ pc' = "start"
    /\ UNCHANGED <<patches, diff_panic, patched, apply_panic, order, html>>

NextParse == ParseHtml \/ Diff \/ ApplyPatches

SpecParse == InitParse /\ [][NextParse]_vars

\* The element nodes of a tree, parents before children, siblings in order.
RECURSIVE ElementsOf(_)
ElementsOf(node) ==
    IF is_text(node) THEN << >>
    ELSE <<node>> \o Flatten([i \in DOMAIN node.children |->
                                 ElementsOf(node.children[i])])

\* A tree numbered by one parse: the k-th element carries the encoding of
\* k - 1 as identity and under data-dj, and texts carry no identity.
NumberedFromZero(tree) ==
    LET es == ElementsOf(tree)
    IN  /\ \A k \in DOMAIN es :
              /\ es[k].djust_id = Some(to_base62(k - 1))
              /\ ParserIdAttr \in DOMAIN es[k].attrs
              /\ es[k].attrs[ParserIdAttr] = to_base62(k - 1)
        /\ \A j, k \in DOMAIN es : j # k => es[j].djust_id # es[k].djust_id
        /\ \A n \in NodesOf(tree) : is_text(n) => n.djust_id = None

\* C16: every tree parse_html returns is numbered from zero in document
\* order, whatever the counter held before the call: each element has its
\* own identity, holds it under data-dj whatever the markup set there, and
\* texts have none; the counter is left at the number of elements.
ParseNumbersFromZero ==
    /\ pc # "html" => NumberedFromZero(old)
    /\ pc = "parsed" => id_counter = Len(ElementsOf(old))
    /\ pc \notin {"html", "parsed"} =>
          /\ NumberedFromZero(new)
          /\ id_counter = Len(ElementsOf(new))

\* Two parses have run, the first left the counter above zero, and the
\* second tree has a text child and an item whose markup set data-dj.
ParsedTwiceWithMarkupId ==
    /\ pc = "start"
    /\ Len(ElementsOf(old)) >= 2
    /\ \E i, j \in DOMAIN new.children :
          /\ is_text(new.children[i])
          /\ new.children[j].key = Some("b")
    /\ \E i \in DOMAIN find_root(html[2]).children :
          LET h == find_root(html[2]).children[i]
          IN  /\ h.data = "Element"
              /\ \E a \in DOMAIN h.attrs :
                    h.attrs[a] = Attribute(ParserIdAttr, "zz")

\* The children of the markup that the parser keeps.
KeptHandles(hs) ==
    SelectSeq(hs, LAMBDA h :
        /\ h.data # "Comment"
        /\ ~(h.data = "Text" /\ AllWhitespace(h.contents)))

RECURSIVE KeyedAsMarkup(_, _)
KeyedAsMarkup(handle, node) ==
    IF handle.data # "Element" THEN node.key = None
    ELSE LET dk == SelectSeq(handle.attrs, LAMBDA a : a.name = KeyAttr)
             kept == KeptHandles(handle.children)
         IN  /\ node.key = IF dk # << >> /\ dk[1].value # ""
                             THEN Some(dk[1].value)
                             ELSE None
             /\ IF dk # << >>
                  THEN /\ KeyAttr \in DOMAIN node.attrs
                       /\ node.attrs[KeyAttr] = dk[1].value
                  ELSE KeyAttr \notin DOMAIN node.attrs
             /\ Len(node.children) = Len(kept)
             /\ \A i \in DOMAIN kept : KeyedAsMarkup(kept[i], node.children[i])

\* C17: a parsed node has a key exactly when its markup has a non-empty
\* data-key, the key is that value, and data-key stays in the attribute map
\* with the markup's value (the empty one included).
KeyIsNonEmptyDataKey ==
    /\ pc # "html" => KeyedAsMarkup(find_root(html[1]), old)
    /\ pc \notin {"html", "parsed"} => KeyedAsMarkup(find_root(html[2]), new)

\* A parsed tree with an item keyed "a" and an item whose data-key is empty.
ParsedEmptyAndNonEmptyKey ==
    /\ pc = "parsed"
    /\ \E i, j \in DOMAIN old.children :
          /\ old.children[i].key = Some("a")
          /\ old.children[i].attrs[KeyAttr] = "a"
          /\ old.children[j].key = None
          /\ KeyAttr \in DOMAIN old.children[j].attrs
          /\ old.children[j].attrs[KeyAttr] = ""

----------------------------------------------------------------------------
(* Keyed and indexed children *)

\* Old children: a text, and two keyed elements; keys may repeat.
KeyedOldKids ==
    {VNode_text("s"), with_key(VNode_element("li"), "a"),
     with_key(VNode_element("p"), "b")}

\* New children: another text, the element keyed a with an attribute more,
\* the element keyed b as it was, and an element with a key of its own.
KeyedNewKids ==
    {VNode_text("t"),
     with_attr(with_key(VNode_element("li"), "a"), "class", "x"),
     with_key(VNode_element("p"), "b"),
     with_key(VNode_element("div"), "c")}

\* Two parents, at the root or below a <section>, every node with its own
\* identity.
InitKeyed ==
    \E a \in Parents("div", KeyedOldKids), b \in Parents("div", KeyedNewKids),
       below \in BOOLEAN :
        LET ra == IF below THEN Wrapped(a) ELSE a
            rb == IF below THEN Wrapped(b) ELSE b
        IN  Start(WithIds(ra, rb)[1], WithIds(ra, rb)[2])

SpecKeyed == InitKeyed /\ [][Diff]_vars

\* The container's children are diffed in keyed mode.
KeyedMode ==
    /\ OldContainer.tag = NewContainer.tag
    /\ ~ReplaceMode
    /\ \E j \in DOMAIN NewContainer.children :
          IsSome(NewContainer.children[j].key)

\* The positions of `patches` that hold a patch of one type addressed to the
\* container and naming index i.
ChildListPatches(type, i) ==
    {x \in DOMAIN patches :
        /\ patches[x].type = type
        /\ patches[x].path = ContainerPath
        /\ patches[x].index = i}

\* The 0-based indices of the children of cs that carry key k.
IndicesOfKey(cs, k) == {i \in 0..(Len(cs) - 1) : cs[i + 1].key = Some(k)}

\* C21: in keyed mode every key of the old children that no new child
\* carries gets exactly one RemoveChild, at the index of the old child with
\* that key, and every new child whose key no old child carries gets exactly
\* one InsertChild at its index with the new subtree; both carry the
\* container's path and the old container's identity.
KeyedRemovesAndInserts ==
    (pc = "diffed" /\ KeyedMode) =>
        LET ol == OldContainer.children
            nw == NewContainer.children
        IN  /\ \A k \in KeysOf(ol) \ KeysOf(nw) :
                  \E i \in IndicesOfKey(ol, k) :
                      /\ Cardinality(ChildListPatches("RemoveChild", i)) = 1
                      /\ \A x \in ChildListPatches("RemoveChild", i) :
                            patches[x] = RemoveChild(ContainerPath,
                                                     OldContainer.djust_id, i)
                      /\ \A j \in IndicesOfKey(ol, k) \ {i} :
                            ChildListPatches("RemoveChild", j) = {}
            /\ \A k \in KeysOf(nw) \ KeysOf(ol) :
                  \A j \in IndicesOfKey(nw, k) :
                      /\ Cardinality(ChildListPatches("InsertChild", j)) = 1
                      /\ \A x \in ChildListPatches("InsertChild", j) :
                            patches[x] = InsertChild(ContainerPath,
                                                     OldContainer.djust_id, j,
                                                     nw[j + 1])

\* Below a <section>: key a is gone, key c is new, key b stays.
KeyGoneAndKeyNew ==
    /\ pc = "diffed"
    /\ KeyedMode
    /\ ContainerPath = <<0>>
    /\ KeysOf(OldContainer.children) = {"a", "b"}
    /\ KeysOf(NewContainer.children) = {"b", "c"}
    /\ Len(patches) >= 2

\* The patches for the child at index j of the new list and below it.
PatchesBelow(j) ==
    LET n == Len(ContainerPath)
    IN  SelectSeq(patches, LAMBDA p :
            /\ Len(p.path) > n
            /\ SubSeq(p.path, 1, n + 1) = Append(ContainerPath, j))

\* The positions of `patches` that hold a MoveChild of the container to
\* index j.
MovesTo(j) ==
    {x \in DOMAIN patches :
        /\ patches[x].type = "MoveChild"
        /\ patches[x].path = ContainerPath
        /\ patches[x].to = j}

\* C22: in keyed mode a new child whose key an old child carries is diffed
\* against that old child, at the container's path followed by its new
\* index, and there is a MoveChild from the old index to the new index
\* exactly when the two differ.
MatchedKeysDiffedAndMoved ==
    (pc = "diffed" /\ KeyedMode) =>
        LET ol == OldContainer.children
            nw == NewContainer.children
        IN  \A k \in KeysOf(ol) \cap KeysOf(nw) :
              \A j \in IndicesOfKey(nw, k) :
                \E i \in IndicesOfKey(ol, k) :
                    /\ \E h \in HashOrders :
                          PatchesBelow(j) =
                              diff_nodes(ol[i + 1], nw[j + 1],
                                         Append(ContainerPath, j), h).patches
                    /\ IF i # j
                         THEN /\ Cardinality(MovesTo(j)) = 1
                              /\ \A x \in MovesTo(j) :
                                    patches[x] =
                                        MoveChild(ContainerPath,
                                                  OldContainer.djust_id, i, j)
                         ELSE MovesTo(j) = {}

\* Key a moves from index 1 to index 0 and its element changes an
\* attribute; key b stays at index 2 and gets no MoveChild.
MovedChangedAndStayed ==
    /\ pc = "diffed"
    /\ KeyedMode
    /\ Len(OldContainer.children) = 3
    /\ Len(NewContainer.children) = 3
    /\ OldContainer.children[2].key = Some("a")
    /\ NewContainer.children[1].key = Some("a")
    /\ OldContainer.children[3].key = Some("b")
    /\ NewContainer.children[3].key = Some("b")
    /\ UniqueKeys(OldContainer.children)
    /\ MovesTo(0) # {}
    /\ MovesTo(2) = {}
    /\ PatchesBelow(0) # << >>

\* C23: in keyed mode an unkeyed new child at index j is diffed in place
\* against old[j] when old[j] exists and is unkeyed, and is otherwise
\* inserted at j; an unkeyed old child at index i gets exactly one
\* RemoveChild at i when i is beyond the new list or new[i] is keyed, and
\* none when it was matched.
UnkeyedMatchedInPlace ==
    (pc = "diffed" /\ KeyedMode) =>
        LET ol == OldContainer.children
            nw == NewContainer.children
            inserts(j) == ChildListPatches("InsertChild", j)
            removes(i) == ChildListPatches("RemoveChild", i)
        IN  /\ \A j \in 0..(Len(nw) - 1) :
                  nw[j + 1].key = None =>
                      IF j < Len(ol) /\ ol[j + 1].key = None
                        THEN /\ \E h \in HashOrders :
                                  PatchesBelow(j) =
                                      diff_nodes(ol[j + 1], nw[j + 1],
                                                 Append(ContainerPath, j),
                                                 h).patches
                             /\ inserts(j) = {}
                             /\ removes(j) = {}
                        ELSE /\ Cardinality(inserts(j)) = 1
                             /\ \A x \in inserts(j) :
                                   patches[x] =
                                       InsertChild(ContainerPath,
                                                   OldContainer.djust_id, j,
                                                   nw[j + 1])
                             /\ PatchesBelow(j) = << >>
            /\ \A i \in 0..(Len(ol) - 1) :
                  ol[i + 1].key = None =>
                      IF i >= Len(nw) \/ IsSome(nw[i + 1].key)
                        THEN /\ Cardinality(removes(i)) = 1
                             /\ \A x \in removes(i) :
                                   patches[x] =
                                       RemoveChild(ContainerPath,
                                                   OldContainer.djust_id, i)
                        ELSE removes(i) = {}

\* Old [text, keyed a, text], new [keyed c, text, text]: the text at index 2
\* is diffed in place, the text at index 1 is inserted where the old child
\* is keyed, and the old text at index 0 is removed.
UnkeyedOfEveryKind ==
    /\ pc = "diffed"
    /\ KeyedMode
    /\ Len(OldContainer.children) = 3
    /\ Len(NewContainer.children) = 3
    /\ OldContainer.children[1].key = None
    /\ IsSome(OldContainer.children[2].key)
    /\ OldContainer.children[3].key = None
    /\ IsSome(NewContainer.children[1].key)
    /\ NewContainer.children[2].key = None
    /\ NewContainer.children[3].key = None
    /\ ChildListPatches("RemoveChild", 0) # {}
    /\ ChildListPatches("InsertChild", 1) # {}
    /\ PatchesBelow(2) # << >>

\* The container's children are diffed by position.
IndexedMode ==
    /\ OldContainer.tag = NewContainer.tag
    /\ ~ReplaceMode
    /\ \A j \in DOMAIN NewContainer.children :
          NewContainer.children[j].key = None

\* C24: in indexed mode the patches for the children are the diffs of
\* old[i] against new[i] at the container's path followed by i, for i below
\* both lengths in ascending order, then RemoveChild for old_len - 1 down to
\* new_len when the old list is longer, or InsertChild with new[i] for
\* old_len up to new_len - 1 when the new list is longer; no MoveChild.
IndexedPairsThenTail ==
    (pc = "diffed" /\ IndexedMode) =>
        LET ol == OldContainer.children
            nw == NewContainer.children
            old_len == Len(ol)
            new_len == Len(nw)
            pairs(h) ==
                Flatten([j \in 1..Min(old_len, new_len) |->
                            diff_nodes(ol[j], nw[j],
                                       Append(ContainerPath, j - 1), h).patches])
            removes ==
                [j \in 1..(IF old_len > new_len THEN old_len - new_len ELSE 0) |->
                    RemoveChild(ContainerPath, OldContainer.djust_id, old_len - j)]
            inserts ==
                [j \in 1..(IF new_len > old_len THEN new_len - old_len ELSE 0) |->
                    InsertChild(ContainerPath, OldContainer.djust_id,
                                old_len + j - 1, nw[old_len + j])]
        IN  /\ \E h \in HashOrders : ChildPatches = pairs(h) \o removes \o inserts
            /\ \A x \in DOMAIN patches : patches[x].type # "MoveChild"

\* Three old children against one new text below a <section>: one pair is
\* diffed and the two surplus children are removed, index 2 first.
IndexedShrinks ==
    /\ pc = "diffed"
    /\ IndexedMode
    /\ ContainerPath = <<0>>
    /\ Len(OldContainer.children) = 3
    /\ Len(NewContainer.children) = 1
    /\ is_text(OldContainer.children[1])
    /\ Len(patches) = 3

\* C25: the children of a container are handled in replace-all mode exactly
\* when the old or the new container carries data-djust-replace; otherwise
\* in keyed mode exactly when a new child carries a key; otherwise by
\* position, also when only old children carry keys.
ModeSelection ==
    (pc = "diffed" /\ OldContainer.tag = NewContainer.tag) =>
        LET ol == OldContainer.children
            nw == NewContainer.children
            id == OldContainer.djust_id
        IN  \E h \in HashOrders :
              ChildPatches =
                IF ReplaceMode
                  THEN replace_all_children(OldContainer, NewContainer,
                                            ContainerPath, id).patches
                ELSE IF KeyedMode
                  THEN diff_keyed_children(ol, nw, ContainerPath, id, h).patches
                ELSE diff_indexed_children(ol, nw, ContainerPath, id, h).patches

\* Only an old child carries a key: the pair at index 0 is diffed by
\* position and the keyed element is replaced by the new text.
OnlyOldKeysIndexed ==
    /\ pc = "diffed"
    /\ IndexedMode
    /\ OldContainer.children # << >>
    /\ NewContainer.children # << >>
    /\ IsSome(OldContainer.children[1].key)
    /\ \E x \in DOMAIN patches :
          /\ patches[x].type = "Replace"
          /\ patches[x].path = Append(ContainerPath, 0)

\* The 0-based indices of the old children that the diff matches with the
\* new child at index j: by key when the new child is keyed, by position
\* when it is not (and, in keyed mode, the old child is unkeyed too).
MatchedOld(j) ==
    LET ol == OldContainer.children
        nw == NewContainer.children
        by_position == IF j < Len(ol) THEN {j} ELSE {}
    IN  IF IndexedMode THEN by_position
        ELSE IF IsSome(nw[j + 1].key)
          THEN IndicesOfKey(ol, Unwrap(nw[j + 1].key))
        ELSE {i \in by_position : ol[i + 1].key = None}

\* C26: every patch of diff_nodes(old, new, path) has a path that extends
\* `path`; InsertChild, RemoveChild and MoveChild carry the path of the
\* parent whose child list they edit; every other patch below the parent
\* carries the parent's path followed by the index that a matched child has
\* in the new child list, and is a patch of the diff of that pair.
PathsInNewLayout ==
    (pc = "diffed" /\ OldContainer.tag = NewContainer.tag /\ ~ReplaceMode) =>
        LET ol == OldContainer.children
            nw == NewContainer.children
            n == Len(ContainerPath)
        IN  \A x \in DOMAIN patches :
              LET p == patches[x]
                  j == p.path[n + 1]
              IN  /\ Len(p.path) >= n
                  /\ SubSeq(p.path, 1, n) = ContainerPath
                  /\ p.type \in {"InsertChild", "RemoveChild", "MoveChild"}
                        => p.path = ContainerPath
                  /\ p.path # ContainerPath =>
                        /\ j < Len(nw)
                        /\ \E i \in MatchedOld(j), h \in HashOrders :
                              LET below == diff_nodes(ol[i + 1], nw[j + 1],
                                                      Append(ContainerPath, j),
                                                      h).patches
                              IN  \E y \in DOMAIN below : below[y] = p

\* Below a <section>, the element keyed a moves from index 2 to index 0 and
\* gains an attribute: its SetAttr carries the path [0, 0].
MovedChildPatchedAtNewIndex ==
    /\ pc = "diffed"
    /\ KeyedMode
    /\ ContainerPath = <<0>>
    /\ Len(OldContainer.children) = 3
    /\ OldContainer.children[3].key = Some("a")
    /\ UniqueKeys(OldContainer.children)
    /\ NewContainer.children # << >>
    /\ NewContainer.children[1].key = Some("a")
    /\ Len(NewContainer.children) = 1
    /\ \E x \in DOMAIN patches :
          /\ patches[x].type = "SetAttr"
          /\ patches[x].path = <<0, 0>>

\* The 0-based indices of the new children matched with the old child at
\* index i.
MatchedNew(i) ==
    {j \in 0..(Len(NewContainer.children) - 1) : i \in MatchedOld(j)}

\* C27: in keyed mode with keys unique among the old and among the new
\* siblings, every old child is either matched with exactly one new child
\* and not removed, or matched with none and removed by exactly one
\* RemoveChild; every new child is either matched with exactly one old child
\* and not inserted, or matched with none and inserted by exactly one
\* InsertChild; only matched children have patches below them.
KeyedCoverage ==
    (/\ pc = "diffed"
     /\ KeyedMode
     /\ UniqueKeys(OldContainer.children)
     /\ UniqueKeys(NewContainer.children)) =>
        /\ \A i \in 0..(Len(OldContainer.children) - 1) :
              LET removes == ChildListPatches("RemoveChild", i)
              IN  \/ Cardinality(MatchedNew(i)) = 1 /\ removes = {}
                  \/ MatchedNew(i) = {} /\ Cardinality(removes) = 1
        /\ \A j \in 0..(Len(NewContainer.children) - 1) :
              LET inserts == ChildListPatches("InsertChild", j)
              IN  /\ \/ Cardinality(MatchedOld(j)) = 1 /\ inserts = {}
                     \/ MatchedOld(j) = {} /\ Cardinality(inserts) = 1
                  /\ PatchesBelow(j) # << >> => MatchedOld(j) # {}
        /\ \A x \in DOMAIN patches :
              patches[x].type \in {"RemoveChild", "InsertChild"} =>
                  patches[x].index <
                      Len(IF patches[x].type = "RemoveChild"
                            THEN OldContainer.children
                            ELSE NewContainer.children)

\* Three old and three new children with unique keys: an old child is
\* removed, one is moved, and a new child is inserted.
CoverageOfEveryKind ==
    /\ pc = "diffed"
    /\ KeyedMode
    /\ UniqueKeys(OldContainer.children)
    /\ UniqueKeys(NewContainer.children)
    /\ Len(OldContainer.children) = 3
    /\ Len(NewContainer.children) = 3
    /\ \E x, y, z \in DOMAIN patches :
          /\ patches[x].type = "RemoveChild"
          /\ patches[y].type = "MoveChild"
          /\ patches[z].type = "InsertChild"

----------------------------------------------------------------------------
(* Round trip of two parsed trees *)

\* C28: for two trees that consecutive parse_html calls numbered from zero
\* each, applying diff(A, B) to a copy of A gives a tree structurally equal
\* to B.
RoundTripParsedPair ==
    (/\ pc \in {"applied", "panicked"}
     /\ html # << >>
     /\ UniqueKeys(old.children)
     /\ UniqueKeys(new.children)) =>
        /\ ~apply_panic
        /\ ~diff_panic
        /\ structurally_equal(patched, new)

----------------------------------------------------------------------------
(* Order of the removes and inserts of a batch *)

\* The rearrangements of `patches` that exchange RemoveChild patches among
\* themselves and InsertChild patches among themselves and leave every
\* other patch in its place.
Rearranged ==
    LET n == DOMAIN patches
        perms == {f \in [n -> n] :
                    /\ \A i, j \in n : i # j => f[i] # f[j]
                    /\ \A i \in n :
                          \/ f[i] = i
                          \/ /\ patches[i].type = patches[f[i]].type
                             /\ patches[i].type \in {"RemoveChild", "InsertChild"}}
    IN  {[i \in n |-> patches[f[i]]] : f \in perms}

\* No two InsertChild patches of the batch name the same path and index.
DistinctInserts ==
    \A i, j \in DOMAIN patches :
        (/\ i # j
         /\ patches[i].type = "InsertChild"
         /\ patches[j].type = "InsertChild") =>
            <<patches[i].path, patches[i].index>>
                # <<patches[j].path, patches[j].index>>

\* C29: the tree apply_patches leaves is the same for every order of the
\* RemoveChild patches among themselves, and of the InsertChild patches with
\* distinct path and index among themselves.
RemoveOrderIrrelevant ==
    (pc = "applied" /\ DistinctInserts) =>
        \A ps \in Rearranged :
            apply_patches(old, ps) = [root |-> patched, panic |-> FALSE]

\* Two removes of one parent at different indices, both in range, listed
\* either way round, and both children are gone.
TwoRemovesEitherOrder ==
    /\ pc = "applied"
    /\ Len(patches) = 2
    /\ patches[1].type = "RemoveChild"
    /\ patches[2].type = "RemoveChild"
    /\ patches[1].path = <<0>>
    /\ patches[2].path = <<0>>
    /\ {patches[1].index, patches[2].index} = {0, 1}
    /\ Cardinality(Rearranged) = 2
    /\ \E t \in DOMAIN patched.children : patched.children[t].children = << >>
    /\ \E t \in DOMAIN old.children : Len(old.children[t].children) = 2

----------------------------------------------------------------------------
(* Nodes kept by a move *)

\* How often each node occurs in a child list.
Occurrences(cs) ==
    [x \in {cs[i] : i \in DOMAIN cs} |->
        Cardinality({i \in DOMAIN cs : cs[i] = x})]

\* Step k of `order` is a MoveChild that did not add, drop or duplicate a
\* node: the call went on, the target's children are the ones it had before
\* the step, and the tree is otherwise as before.
MoveKeepsNodes(k) ==
    LET p == patches[order[k]]
        before == Replay(k - 1)
        after == Replay(k)
        target == get_node(before.root, p.path)
        moved == get_node(after.root, p.path)
    IN  (p.type = "MoveChild" /\ ~before.panic) =>
            /\ ~after.panic
            /\ target = None => after.root = before.root
            /\ IsSome(target) =>
                  /\ IsSome(moved)
                  /\ Occurrences(Unwrap(moved).children)
                        = Occurrences(Unwrap(target).children)
                  /\ after.root
                        = Assign(before.root, p.path,
                                 [Unwrap(target) EXCEPT
                                     !.children = Unwrap(moved).children])

\* The steps of `order` of one type and one path that changed the tree.
TookEffect(type, path) ==
    {k \in DOMAIN order :
        /\ patches[order[k]].type = type
        /\ patches[order[k]].path = path
        /\ Replay(k).root # Replay(k - 1).root}

\* No patch of the batch changes which node the path leads to: none
\* replaces a node on the path, none changes a child list above it.
LeadsToSameNode(path) ==
    /\ IsSome(get_node(old, path))
    /\ \A i \in DOMAIN patches :
          LET q == patches[i].path
          IN  /\ patches[i].type = "Replace" =>
                    ~(Len(q) <= Len(path) /\ SubSeq(path, 1, Len(q)) = q)
              /\ patches[i].type \in {"InsertChild", "RemoveChild", "MoveChild"} =>
                    ~(Len(q) < Len(path) /\ SubSeq(path, 1, Len(q)) = q)

\* C30: a MoveChild, applied by apply_patch or in a batch, leaves its
\* target's children a permutation of what they were and every other node
\* as it was; so after apply_patches a parent has its former number of
\* children, less the removes and plus the inserts that took effect.
MoveChildKeepsNodes ==
    /\ pc \in {"applied", "applied_one", "panicked", "panicked_one"} =>
          \A k \in DOMAIN order : MoveKeepsNodes(k)
    /\ pc = "applied" =>
          \A i \in DOMAIN patches :
              LET path == patches[i].path
              IN  LeadsToSameNode(path) =>
                    Len(Unwrap(get_node(patched, path)).children)
                        = Len(Unwrap(get_node(old, path)).children)
                            - Cardinality(TookEffect("RemoveChild", path))
                            + Cardinality(TookEffect("InsertChild", path))

====
